---- MODULE Spec2Model ----
(***************************************************************************)
(* Option income APR explorer: the quote fetcher (covered_call.py) and the *)
(* presentation layer (app.py).                                            *)
(*                                                                         *)
(* Numbers.  Prices are Python floats; the model keeps them as integers    *)
(* (whole currency units), together with the two non-numbers a pandas row  *)
(* can hold: None (the field is absent) and NaN.  An apr is an exact       *)
(* fraction n/d in lowest terms, or NaN.  Every comparison with NaN is     *)
(* false, as in IEEE arithmetic.                                           *)
(***************************************************************************)
EXTENDS Integers, Sequences, FiniteSets, TLC

\* provider:    what the market-data provider answers (yfinance): the fast
\*              quote, the daily close, the option chain, the expiry list
\* FETCH_STATS: covered_call._FETCH_STATS, key -> diagnostic record
\* last:        the most recent operation: its arguments, the date it read
\*              from the clock, and what it returned, raised or displayed;
\*              repeat tells that the operation before it was the same fetch
\*              with the same arguments on the same date
VARIABLES provider, FETCH_STATS, last

vars == <<provider, FETCH_STATS, last>>

-----------------------------------------------------------------------------
(* Values *)

None == [t |-> "none", v |-> 0]
NaN == [t |-> "nan", v |-> 0]
Raises == [t |-> "raise", v |-> 0]
Empty == [t |-> "empty", v |-> 0]
Num(x) == [t |-> "num", v |-> x]

IsNum(x) == x.t = "num"

\* pd.isna(x) for a scalar: None and NaN are both "NA"
isna(x) == x.t \in {"none", "nan"}

\* Python truth value of a float-or-None: None and 0 are false, NaN is true
Truthy(x) == x.t = "nan" \/ (x.t = "num" /\ x.v # 0)

\* x > 0, x <= 0 on floats: false whenever x is NaN
GtZero(x) == x.t = "num" /\ x.v > 0
LeZero(x) == x.t = "num" /\ x.v <= 0
\* a <= b, a >= b on floats
FLe(a, b) == a.t = "num" /\ b.t = "num" /\ a.v <= b.v
FGe(a, b) == a.t = "num" /\ b.t = "num" /\ a.v >= b.v
\* a - b on floats
FSub(a, b) == IF a.t = "num" /\ b.t = "num" THEN Num(a.v - b.v) ELSE NaN

RECURSIVE GCD(_, _)
GCD(a, b) == IF b = 0 THEN a ELSE GCD(b, a % b)

RatNaN == [t |-> "nan", n |-> 0, d |-> 1]
\* the fraction n/d (n >= 0, d > 0) in lowest terms
Rat(n, d) == LET g == GCD(n, d) IN [t |-> "num", n |-> n \div g, d |-> d \div g]

\* a < b on aprs: false whenever either is NaN
RatLt(a, b) == a.t = "num" /\ b.t = "num" /\ a.n * b.d < b.n * a.d

\* str.upper() and str.lower() on the strings the model passes
upper(s) ==
    CASE s = "aapl" -> "AAPL"
      [] s = "call" -> "CALL"
      [] s = "put" -> "PUT"
      [] s = "Call" -> "CALL"
      [] OTHER -> s

lower(s) ==
    CASE s = "AAPL" -> "aapl"
      [] s = "CALL" -> "call"
      [] s = "PUT" -> "put"
      [] s = "Call" -> "call"
      [] OTHER -> s

\* datetime.strptime(expiry, "%Y-%m-%d"): the day number of the date (days
\* since 1970-01-01), or -1 for a string that does not parse (ValueError)
strptime(expiry) ==
    CASE expiry = "1970-01-03" -> 2
      [] expiry = "1970-01-04" -> 3
      [] OTHER -> -1

Max(a, b) == IF a >= b THEN a ELSE b

-----------------------------------------------------------------------------
(* covered_call.py *)

\* OptionQuote(...)
OptionQuote(ticker, option_type, expiry, strike, premium, underlying_price, days_to_expiry, apr, break_even_price, bid, ask, implied_vol) ==
    [ticker |-> ticker, option_type |-> option_type, expiry |-> expiry,
     strike |-> strike, premium |-> premium,
     underlying_price |-> underlying_price,
     days_to_expiry |-> days_to_expiry, apr |-> apr,
     break_even_price |-> break_even_price,
     bid |-> bid, ask |-> ask, implied_vol |-> implied_vol]

\* _get_underlying_price(ticker)
get_underlying_price(P) ==
    IF P.fast.t # "raise" /\ Truthy(P.fast)
    THEN P.fast
    ELSE IF P.hist.t \in {"raise", "empty"} THEN None ELSE P.hist

\* _calculate_premium(row), mutated: ask before lastPrice
calculate_premium_ask_first(row) ==
    IF row.bid.t # "none" /\ ~isna(row.bid) /\ GtZero(row.bid) THEN row.bid
    ELSE IF row.ask.t # "none" /\ ~isna(row.ask) /\ GtZero(row.ask)
    THEN row.ask
    ELSE IF row.lastPrice.t # "none" /\ ~isna(row.lastPrice)
            /\ GtZero(row.lastPrice)
    THEN row.lastPrice
    ELSE None

\* _calculate_premium(row)
calculate_premium(row) ==
    IF row.bid.t # "none" /\ ~isna(row.bid) /\ GtZero(row.bid) THEN row.bid
    ELSE IF row.lastPrice.t # "none" /\ ~isna(row.lastPrice)
            /\ GtZero(row.lastPrice)
    THEN row.lastPrice
    ELSE IF row.ask.t # "none" /\ ~isna(row.ask) /\ GtZero(row.ask)
    THEN row.ask
    ELSE None

\* _calculate_days_to_expiry(expiry), mutated: clamped at 1, not at 0
calculate_days_to_expiry_min1(expiry_date, now) == Max(expiry_date - now, 1)

\* _calculate_days_to_expiry(expiry); now is datetime.now(timezone.utc).date()
calculate_days_to_expiry(expiry_date, now) == Max(expiry_date - now, 0)

\* get_fetch_stats(symbol, expiry, option_type): a copy of the record, or {}
NoStats == [total_rows |-> -1, kept |-> -1, missing_bid |-> -1,
            not_otm |-> -1, invalid_strike |-> -1, error |-> "{}"]

get_fetch_stats(STATS, symbol, expiry, option_type) ==
    LET key == <<lower(option_type), upper(symbol), expiry>>
    IN IF key \in DOMAIN STATS THEN STATS[key] ELSE NoStats

ZeroStats == [total_rows |-> 0, kept |-> 0, missing_bid |-> 0,
              not_otm |-> 0, invalid_strike |-> 0, error |-> ""]

\* _init_stats(option_type, symbol, expiry): the key and the fresh record
\* (the record is also stored in _FETCH_STATS[key]; the fetch operators
\* below write every later change of it through to the map)
init_stats(STATS, option_type, symbol, expiry) ==
    [key |-> <<option_type, upper(symbol), expiry>>, stats |-> ZeroStats]

\* reverse_slice: the list back to front
Reverse(s) == [i \in 1..Len(s) |-> s[Len(s) + 1 - i]]

\* the sort's comparison of two quotes: key(q1) < key(q2), the key being apr
AprLt(q1, q2) == RatLt(q1.apr, q2.apr)

\* count_run (CPython listobject.c): the length of the run that starts the
\* list, and whether it is strictly descending
RECURSIVE run_end(_, _, _)
run_end(s, i, desc) ==
    IF i > Len(s) THEN Len(s)
    ELSE IF AprLt(s[i], s[i - 1]) = desc THEN run_end(s, i + 1, desc)
    ELSE i - 1

count_run(s) ==
    IF Len(s) <= 1 THEN [n |-> Len(s), descending |-> FALSE]
    ELSE LET desc == AprLt(s[2], s[1])
         IN [n |-> run_end(s, 3, desc), descending |-> desc]

\* binarysort's search: the place in s[l+1..r] (0-based l, r) for pivot
RECURSIVE bisect(_, _, _, _)
bisect(s, pivot, l, r) ==
    IF l >= r THEN l
    ELSE LET p == l + ((r - l) \div 2)
         IN IF AprLt(pivot, s[p + 1]) THEN bisect(s, pivot, l, p)
            ELSE bisect(s, pivot, p + 1, r)

\* binarysort (CPython listobject.c): s[1..start-1] is sorted; insert the
\* elements from start on, one by one
RECURSIVE binarysort(_, _)
binarysort(s, start) ==
    IF start > Len(s) THEN s
    ELSE LET pivot == s[start]
             l == bisect(s, pivot, 0, start - 1)
             t == [i \in 1..Len(s) |->
                     IF i <= l THEN s[i]
                     ELSE IF i = l + 1 THEN pivot
                     ELSE IF i <= start THEN s[i - 1]
                     ELSE s[i]]
         IN binarysort(t, start + 1)

\* list.sort() for a list shorter than 64 elements: one run, extended to the
\* whole list by binarysort
listsort(s) ==
    LET run == count_run(s)
        head == SubSeq(s, 1, run.n)
        s1 == IF run.descending
              THEN Reverse(head) \o SubSeq(s, run.n + 1, Len(s))
              ELSE s
    IN binarysort(s1, run.n + 1)

\* sorted(results, key=lambda quote: quote.apr, reverse=True): the list is
\* reversed, sorted ascending and reversed again
sorted_by_apr(results) == Reverse(listsort(Reverse(results)))

\* lines 133-161: one row of calls_df; what the loop does with it
call_row(row, symbol, expiry_dt, underlying_price, days_to_expiry) ==
    LET premium == calculate_premium(row)
        strike == row.strike
        apr == IF IsNum(underlying_price)
               THEN Rat(premium.v * 365 * 100, underlying_price.v * days_to_expiry)
               ELSE RatNaN
        break_even == FSub(underlying_price, premium)
    IN IF premium = None \/ LeZero(premium) THEN [outcome |-> "missing_bid"]
       ELSE IF strike.t = "none" THEN [outcome |-> "raise"]
       ELSE IF FLe(strike, underlying_price) THEN [outcome |-> "not_otm"]
       ELSE [outcome |-> "keep",
             quote |-> OptionQuote(upper(symbol), "call", expiry_dt, strike,
                                   premium, underlying_price, days_to_expiry,
                                   apr, break_even, row.bid, row.ask,
                                   row.impliedVolatility)]

\* lines 218-250: one row of puts_df
put_row(row, symbol, expiry_dt, underlying_price, days_to_expiry) ==
    LET premium == calculate_premium(row)
        strike == row.strike
        apr == IF IsNum(strike)
               THEN Rat(premium.v * 365 * 100, strike.v * days_to_expiry)
               ELSE RatNaN
        break_even == FSub(strike, premium)
    IN IF premium = None \/ LeZero(premium) THEN [outcome |-> "missing_bid"]
       ELSE IF strike.t = "none" THEN [outcome |-> "raise"]
       ELSE IF FGe(strike, underlying_price) THEN [outcome |-> "not_otm"]
       ELSE IF LeZero(strike) THEN [outcome |-> "invalid_strike"]
       ELSE [outcome |-> "keep",
             quote |-> OptionQuote(upper(symbol), "put", expiry_dt, strike,
                                   premium, underlying_price, days_to_expiry,
                                   apr, break_even, row.bid, row.ask,
                                   row.impliedVolatility)]

Bump(stats, counter) == [stats EXCEPT ![counter] = @ + 1]

\* lines 132-161: for _, row in calls_df.iterrows()
RECURSIVE call_loop(_, _, _, _, _, _, _, _)
call_loop(rows, i, stats, results, symbol, expiry_dt, underlying_price, days_to_expiry) ==
    IF i > Len(rows) THEN [stats |-> stats, results |-> results, exc |-> ""]
    ELSE LET r == call_row(rows[i], symbol, expiry_dt, underlying_price, days_to_expiry)
         IN IF r.outcome = "raise"
            THEN [stats |-> stats, results |-> results, exc |-> "TypeError"]
            ELSE IF r.outcome = "keep"
            THEN call_loop(rows, i + 1, stats, Append(results, r.quote),
                           symbol, expiry_dt, underlying_price, days_to_expiry)
            ELSE call_loop(rows, i + 1, Bump(stats, r.outcome), results,
                           symbol, expiry_dt, underlying_price, days_to_expiry)

\* lines 217-250: for _, row in puts_df.iterrows()
RECURSIVE put_loop(_, _, _, _, _, _, _, _)
put_loop(rows, i, stats, results, symbol, expiry_dt, underlying_price, days_to_expiry) ==
    IF i > Len(rows) THEN [stats |-> stats, results |-> results, exc |-> ""]
    ELSE LET r == put_row(rows[i], symbol, expiry_dt, underlying_price, days_to_expiry)
         IN IF r.outcome = "raise"
            THEN [stats |-> stats, results |-> results, exc |-> "TypeError"]
            ELSE IF r.outcome = "keep"
            THEN put_loop(rows, i + 1, stats, Append(results, r.quote),
                          symbol, expiry_dt, underlying_price, days_to_expiry)
            ELSE put_loop(rows, i + 1, Bump(stats, r.outcome), results,
                          symbol, expiry_dt, underlying_price, days_to_expiry)

\* What a fetch leaves behind: the map with the key's record (the record object
\* is the one stored in the map, so every write to it shows there), the list
\* returned and the exception raised ("" when the fetch returned)
Fetched(STATS, key, stats, ret, exc) ==
    [STATS |-> (key :> stats) @@ STATS, ret |-> ret, exc |-> exc]

SetError(stats, code) == [stats EXCEPT !.error = code]

\* lines 108-174 of fetch_covered_call_quotes, after _init_stats
covered_call_steps(STATS, key, stats, P, symbol, expiry, now) ==
    LET underlying_price == get_underlying_price(P)
        expiry_dt == strptime(expiry)
        days_to_expiry == calculate_days_to_expiry(expiry_dt, now)
        loop == call_loop(P.calls, 1, [stats EXCEPT !.total_rows = Len(P.calls)],
                          <<>>, symbol, expiry_dt, underlying_price, days_to_expiry)
    IN IF underlying_price = None \/ LeZero(underlying_price)
       THEN Fetched(STATS, key, SetError(stats, "missing_underlying_price"), <<>>, "")
       ELSE IF ~P.chain_ok
       THEN Fetched(STATS, key, SetError(stats, "option_chain_error"), <<>>, "")
       ELSE IF expiry_dt = -1
       THEN Fetched(STATS, key, stats, <<>>, "ValueError")
       ELSE IF days_to_expiry = 0
       THEN Fetched(STATS, key, SetError(stats, "non_positive_days_to_expiry"), <<>>, "")
       ELSE IF loop.exc # ""
       THEN Fetched(STATS, key, loop.stats, <<>>, loop.exc)
       ELSE Fetched(STATS, key, [loop.stats EXCEPT !.kept = Len(loop.results)],
                    sorted_by_apr(loop.results), "")

\* fetch_covered_call_quotes, mutated: a key fetched before is not fetched again
fetch_covered_call_quotes_once(STATS, P, symbol, expiry, now) ==
    LET init == init_stats(STATS, "call", symbol, expiry)
    IN IF init.key \in DOMAIN STATS
       THEN [STATS |-> STATS, ret |-> <<>>, exc |-> ""]
       ELSE covered_call_steps(STATS, init.key, init.stats, P, symbol, expiry, now)

\* fetch_covered_call_quotes(symbol, expiry)
fetch_covered_call_quotes(STATS, P, symbol, expiry, now) ==
    LET init == init_stats(STATS, "call", symbol, expiry)
    IN covered_call_steps(STATS, init.key, init.stats, P, symbol, expiry, now)

\* lines 193-264 of fetch_cash_secured_put_quotes, after _init_stats
cash_secured_put_steps(STATS, key, stats, P, symbol, expiry, now) ==
    LET underlying_price == get_underlying_price(P)
        expiry_dt == strptime(expiry)
        days_to_expiry == calculate_days_to_expiry(expiry_dt, now)
        loop == put_loop(P.puts, 1, [stats EXCEPT !.total_rows = Len(P.puts)],
                         <<>>, symbol, expiry_dt, underlying_price, days_to_expiry)
    IN IF underlying_price = None \/ LeZero(underlying_price)
       THEN Fetched(STATS, key, SetError(stats, "missing_underlying_price"), <<>>, "")
       ELSE IF ~P.chain_ok
       THEN Fetched(STATS, key, SetError(stats, "option_chain_error"), <<>>, "")
       ELSE IF expiry_dt = -1
       THEN Fetched(STATS, key, stats, <<>>, "ValueError")
       ELSE IF days_to_expiry = 0
       THEN Fetched(STATS, key, SetError(stats, "non_positive_days_to_expiry"), <<>>, "")
       ELSE IF loop.exc # ""
       THEN Fetched(STATS, key, loop.stats, <<>>, loop.exc)
       ELSE Fetched(STATS, key, [loop.stats EXCEPT !.kept = Len(loop.results)],
                    sorted_by_apr(loop.results), "")

\* fetch_cash_secured_put_quotes(symbol, expiry)
fetch_cash_secured_put_quotes(STATS, P, symbol, expiry, now) ==
    LET init == init_stats(STATS, "put", symbol, expiry)
    IN cash_secured_put_steps(STATS, init.key, init.stats, P, symbol, expiry, now)

\* list_option_expiries(symbol): list(ticker.options), or [] when it raises
list_option_expiries(P, symbol) ==
    IF P.options_ok THEN P.options ELSE <<>>

-----------------------------------------------------------------------------
(* app.py *)

\* the nearest integer to n/d (d > 0), halves to the even neighbour
RoundHalfEven(n, d) ==
    LET q == n \div d
        r == n % d
    IN IF 2 * r < d THEN q
       ELSE IF 2 * r > d THEN q + 1
       ELSE IF q % 2 = 0 THEN q ELSE q + 1

\* Series.round(2) of an apr: hundredths, or NaN
round2(x) ==
    IF x.t = "num" THEN Num(RoundHalfEven(100 * x.n, x.d)) ELSE NaN

\* Series.round(2) of a price: hundredths, or NaN
round2_price(x) == IF x.t = "num" THEN Num(100 * x.v) ELSE NaN

\* format_strike_with_percent(strike, underlying): the two numbers the string
\* shows, in hundredths; no percentage when underlying is None or 0
format_strike_with_percent(strike, underlying) ==
    IF underlying.t = "none" \/ (underlying.t = "num" /\ underlying.v = 0)
    THEN [strike |-> round2_price(strike), pct |-> None]
    ELSE [strike |-> round2_price(strike),
          pct |-> IF strike.t = "num" /\ underlying.t = "num"
                  THEN Num(RoundHalfEven(10000 * (strike.v - underlying.v), underlying.v))
                  ELSE NaN]

\* lines 133-140: the frame built from the quotes of one expiry; index is the
\* frame's row label, the quote's 0-based place in the list fetched
display_frame(quotes) ==
    [i \in 1..Len(quotes) |->
        [index |-> i - 1,
         strike |-> format_strike_with_percent(quotes[i].strike, quotes[i].underlying_price),
         premium |-> round2_price(quotes[i].premium),
         apr |-> round2(quotes[i].apr)]]

Orderings(n) == {f \in [1..n -> 1..n] : \A i, j \in 1..n : f[i] = f[j] => i = j}

\* df.sort_values("APR (%)", ascending=False): kind="quicksort" is not a
\* stable sort, so rows with equal keys come out in an order the numpy build
\* decides; rows whose key is NaN come last, in frame order.  The set of
\* frames the call can produce.
sort_values(df) ==
    {[i \in 1..Len(df) |-> df[f[i]]] : f \in
        {g \in Orderings(Len(df)) :
            \A i, j \in 1..Len(df) : i < j =>
               \/ df[g[i]].apr.t = "num" /\ df[g[j]].apr.t = "nan"
               \/ df[g[i]].apr.t = "num" /\ df[g[j]].apr.t = "num"
                  /\ df[g[i]].apr.v >= df[g[j]].apr.v
               \/ df[g[i]].apr.t = "nan" /\ df[g[j]].apr.t = "nan"
                  /\ g[i] < g[j]}}

\* df[available_columns].head(top_n)
head(df, n) == SubSeq(df, 1, IF n < Len(df) THEN n ELSE Len(df))

\* lines 127-146: the tables main can display for one expiry's quotes (none
\* when the expiry has no quotes)
tables_for(quotes, top_n) ==
    IF quotes = <<>> THEN {<<>>}
    ELSE {head(df, top_n) : df \in sort_values(display_frame(quotes))}

\* lines 95-104: quotes_by_expiry, the fetches made one after the other; each
\* entry is what Fetched gives, STATS being the map after that fetch
RECURSIVE fetch_all(_, _, _, _, _, _)
fetch_all(STATS, P, strategy, symbol, selected, now) ==
    IF selected = <<>> THEN <<>>
    ELSE LET r == IF strategy = "Covered Call"
                  THEN fetch_covered_call_quotes(STATS, P, symbol, Head(selected), now)
                  ELSE fetch_cash_secured_put_quotes(STATS, P, symbol, Head(selected), now)
         IN IF r.exc # "" THEN <<r>>
            ELSE <<r>> \o fetch_all(r.STATS, P, strategy, symbol, Tail(selected), now)

RECURSIVE tables_of(_, _)
tables_of(fetched, top_n) ==
    IF fetched = <<>> THEN {<<>>}
    ELSE {<<t>> \o rest : t \in tables_for(Head(fetched).ret, top_n),
                          rest \in tables_of(Tail(fetched), top_n)}

-----------------------------------------------------------------------------
(* The inputs *)

MaxRows == 2
MaxDay == 4
TopNMin == 5

Symbols == {"aapl"}
SymbolTexts == {" ", "aapl"}
ExpiryStrings == {"1970-01-04", "soon"}
Dates == 1..MaxDay
Strategies == {"Covered Call", "Cash-Secured Put"}
TopNs == {TopNMin}

Row(strike, bid, lastPrice, ask, iv) ==
    [strike |-> strike, bid |-> bid, lastPrice |-> lastPrice, ask |-> ask,
     impliedVolatility |-> iv]

StrikeVals == {None, NaN, Num(0), Num(1), Num(2), Num(3)}
PriceVals == {None, NaN, Num(0), Num(5), Num(6)}

\* every single row: any strike with any bid, lastPrice and ask
SingleRows ==
    {Row(k, b, l, a, None) : k \in StrikeVals, b \in PriceVals, l \in PriceVals,
                             a \in PriceVals}

\* (bid, lastPrice, ask): premium 5 from lastPrice, 5 from bid, 1 from ask
PriceTriples ==
    {<<Num(0), Num(5), Num(6)>>, <<Num(5), None, None>>, <<NaN, Num(0), Num(1)>>}

\* the rows of the longer chains: rows a fetch keeps (with equal and with
\* different aprs), and one row for each way of being dropped
ChainRows ==
    {Row(k, p[1], p[2], p[3], Num(40)) : k \in {Num(1), Num(3), NaN}, p \in PriceTriples}
    \cup {Row(None, Num(5), None, None, None), Row(Num(0), Num(5), None, None, None),
          Row(Num(2), None, None, None, None)}

RECURSIVE SeqsUpTo(_, _)
SeqsUpTo(S, n) ==
    IF n = 0 THEN {<<>>}
    ELSE LET shorter == SeqsUpTo(S, n - 1)
         IN shorter \cup {Append(s, x) : s \in {t \in shorter : Len(t) = n - 1}, x \in S}

\* the provider's answers; one frame of rows stands for both sides of the
\* chain (a fetch reads only its own side)
Provider(fast, hist, chain_ok, rows, options_ok, options) ==
    [fast |-> fast, hist |-> hist, chain_ok |-> chain_ok, calls |-> rows,
     puts |-> rows, options_ok |-> options_ok, options |-> options]

AllExpiries == <<"1970-01-04", "soon">>

FastVals == {Raises, None, NaN, Num(-1), Num(0), Num(2)}
HistVals == {Raises, Empty, NaN, Num(0), Num(3)}

TwoRows == <<Row(Num(3), Num(5), None, None, None), Row(Num(1), Num(0), Num(5), Num(6), None)>>

\* chains of up to MaxRows rows, priced against a fast quote of 2
ProvidersChains ==
    {Provider(Num(2), Empty, TRUE, rows, TRUE, AllExpiries) :
        rows \in SeqsUpTo(ChainRows, MaxRows)}

\* every single row, priced against a fast quote of 2
ProvidersRows ==
    {Provider(Num(2), Empty, TRUE, <<r>>, TRUE, AllExpiries) : r \in SingleRows}

\* every answer to the two price lookups, the chain and the expiry list
\* failing or not
ProvidersPrices ==
    {Provider(f, h, ok, TwoRows, TRUE, AllExpiries) :
        f \in FastVals, h \in HistVals, ok \in BOOLEAN}
    \cup {Provider(Num(2), Empty, TRUE, TwoRows, ok, opts) :
            ok \in BOOLEAN, opts \in {<<>>, <<"1970-01-04">>}}

\* the providers of the histories: four chains priced at 2, a failing chain
\* and a missing price
ProvidersFew ==
    {Provider(Num(2), Num(3), TRUE, rows, TRUE, AllExpiries) :
        rows \in {TwoRows, <<Row(Num(3), Num(5), None, None, None)>>,
                  <<Row(Num(3), None, None, None, None), Row(None, Num(5), None, None, None)>>,
                  <<Row(NaN, Num(5), None, None, None), Row(Num(1), Num(0), Num(5), Num(6), None)>>}}
    \cup {Provider(Num(2), Num(3), FALSE, TwoRows, TRUE, AllExpiries),
          Provider(None, Empty, TRUE, TwoRows, TRUE, AllExpiries)}

\* one chain longer than the smallest top N: calls of premiums 1, 2, ...
LongRows == [k \in 1..(TopNMin + 1) |-> Row(Num(3), Num(k), None, None, None)]

ProvidersLong == {Provider(Num(2), Empty, TRUE, LongRows, TRUE, <<"1970-01-04">>)}

RECURSIVE SubSeqs(_)
SubSeqs(s) ==
    IF s = <<>> THEN {<<>>}
    ELSE LET rest == SubSeqs(Tail(s))
         IN rest \cup {<<Head(s)>> \o x : x \in rest}

\* str.strip() on the texts the model passes
strip(s) == IF s = " " THEN "" ELSE s

-----------------------------------------------------------------------------
(* The state machine *)

NoOp == [op |-> "none", symbol |-> "", expiry |-> "", now |-> 0, ret |-> <<>>,
         exc |-> "", strategy |-> "", top_n |-> 0, selected |-> <<>>,
         fetched |-> <<>>, tables |-> <<>>, message |-> "", repeat |-> FALSE]

Init ==
    /\ provider \in ProvidersFew
    /\ FETCH_STATS = <<>>
    /\ last = NoOp

SameFetch(op, symbol, expiry, now) ==
    last.op = op /\ last.symbol = symbol /\ last.expiry = expiry /\ last.now = now

\* fetch_covered_call_quotes(symbol, expiry), called on the date now
FetchCoveredCallQuotes ==
    \E symbol \in Symbols, expiry \in ExpiryStrings, now \in Dates :
        \E r \in {fetch_covered_call_quotes(FETCH_STATS, provider, symbol, expiry, now)} :
           /\ FETCH_STATS' = r.STATS
           /\ last' = [NoOp EXCEPT !.op = "fetch_covered_call_quotes",
                                   !.symbol = symbol, !.expiry = expiry,
                                   !.now = now, !.ret = r.ret, !.exc = r.exc,
                                   !.repeat = SameFetch("fetch_covered_call_quotes", symbol, expiry, now)]
           /\ UNCHANGED provider

\* fetch_cash_secured_put_quotes(symbol, expiry), called on the date now
FetchCashSecuredPutQuotes ==
    \E symbol \in Symbols, expiry \in ExpiryStrings, now \in Dates :
        \E r \in {fetch_cash_secured_put_quotes(FETCH_STATS, provider, symbol, expiry, now)} :
           /\ FETCH_STATS' = r.STATS
           /\ last' = [NoOp EXCEPT !.op = "fetch_cash_secured_put_quotes",
                                   !.symbol = symbol, !.expiry = expiry,
                                   !.now = now, !.ret = r.ret, !.exc = r.exc,
                                   !.repeat = SameFetch("fetch_cash_secured_put_quotes", symbol, expiry, now)]
           /\ UNCHANGED provider

\* list_option_expiries(symbol)
ListOptionExpiries ==
    \E symbol \in Symbols :
        /\ last' = [NoOp EXCEPT !.op = "list_option_expiries", !.symbol = symbol,
                                !.ret = list_option_expiries(provider, symbol)]
        /\ UNCHANGED <<provider, FETCH_STATS>>

\* what main leaves of one fetch in last: the expiry, the list, the exception
Brief(selected, fetched) ==
    [i \in 1..Len(fetched) |->
        [expiry |-> selected[i], ret |-> fetched[i].ret, exc |-> fetched[i].exc]]

\* main(): one run of the script, with the widgets' values
Main ==
    \E strategy \in Strategies, text \in SymbolTexts, top_n \in TopNs :
        LET symbol == strip(upper(text))
            expiries == list_option_expiries(provider, symbol)
            ran == [NoOp EXCEPT !.op = "main", !.strategy = strategy,
                                !.symbol = symbol, !.top_n = top_n]
        IN IF symbol = ""
           THEN /\ last' = [ran EXCEPT !.message = "Provide a ticker symbol"]
                /\ UNCHANGED <<provider, FETCH_STATS>>
           ELSE IF expiries = <<>>
           THEN /\ last' = [ran EXCEPT !.message = "No options expirations found"]
                /\ UNCHANGED <<provider, FETCH_STATS>>
           ELSE \E selected \in SubSeqs(expiries), now \in Dates :
                \E fetched \in {fetch_all(FETCH_STATS, provider, strategy, symbol, selected, now)} :
                \E chose \in {[ran EXCEPT !.selected = selected, !.now = now,
                                          !.fetched = Brief(selected, fetched)]} :
                   IF selected = <<>>
                   THEN /\ last' = [chose EXCEPT !.message = "Select at least one expiry"]
                        /\ UNCHANGED <<provider, FETCH_STATS>>
                   ELSE /\ FETCH_STATS' = fetched[Len(fetched)].STATS
                        /\ UNCHANGED provider
                        /\ IF fetched[Len(fetched)].exc # ""
                           THEN last' = [chose EXCEPT !.exc = fetched[Len(fetched)].exc]
                           ELSE IF \A i \in 1..Len(fetched) : fetched[i].ret = <<>>
                           THEN last' = [chose EXCEPT !.message = "No option quotes available"]
                           ELSE \E tables \in tables_of(fetched, top_n) :
                                    last' = [chose EXCEPT !.tables = tables]

Next ==
    \/ FetchCoveredCallQuotes
    \/ FetchCashSecuredPutQuotes
    \/ ListOptionExpiries
    \/ Main

\* any history of operations, against a provider of ProvidersFew
Spec == Init /\ [][Next]_vars

InitOnce ==
    /\ provider \in ProvidersChains \cup ProvidersRows \cup ProvidersPrices \cup ProvidersLong
    /\ FETCH_STATS = <<>>
    /\ last = NoOp

NextOnce ==
    \/ last.op = "none" /\ FetchCoveredCallQuotes
    \/ last.op = "none" /\ FetchCashSecuredPutQuotes
    \/ last.op = "none" /\ ListOptionExpiries
    \/ last.op = "none" /\ Main

\* one operation, against every provider
SpecOnce == InitOnce /\ [][NextOnce]_vars

-----------------------------------------------------------------------------
(* The claims *)

IsFetch(l) == l.op \in {"fetch_covered_call_quotes", "fetch_cash_secured_put_quotes"}

\* the fetches of the most recent operation: the one called, or those main made
FetchCalls ==
    IF IsFetch(last)
    THEN {[kind |-> IF last.op = "fetch_covered_call_quotes" THEN "call" ELSE "put",
           symbol |-> last.symbol, expiry |-> last.expiry, now |-> last.now,
           ret |-> last.ret, exc |-> last.exc]}
    ELSE IF last.op = "main"
    THEN {[kind |-> IF last.strategy = "Covered Call" THEN "call" ELSE "put",
           symbol |-> last.symbol, expiry |-> last.fetched[i].expiry,
           now |-> last.now, ret |-> last.fetched[i].ret,
           exc |-> last.fetched[i].exc] : i \in 1..Len(last.fetched)}
    ELSE {}

Quotes(c) == {c.ret[i] : i \in 1..Len(c.ret)}
RowsOf(c) == IF c.kind = "call" THEN provider.calls ELSE provider.puts
StatsOf(c) == get_fetch_stats(FETCH_STATS, c.symbol, c.expiry, c.kind)

\* a > b on floats
FGt(a, b) == a.t = "num" /\ b.t = "num" /\ a.v > b.v

\* C1: every call quote returned has strike > underlying_price and every put
\* quote returned has 0 < strike < underlying_price, whatever the provider's
\* rows hold (a strike that is NaN included)
C1_StrikeOutOfTheMoney ==
    \A c \in FetchCalls : \A q \in Quotes(c) :
        IF c.kind = "call"
        THEN FGt(q.strike, q.underlying_price)
        ELSE GtZero(q.strike) /\ FGt(q.underlying_price, q.strike)

\* C2: every quote returned has apr = (premium / basis) * (365 / days) * 100
\* and break_even_price = basis - premium, the basis being underlying_price
\* for a call and strike for a put; apr > 0 and days_to_expiry >= 1
C2_AprFormula ==
    \A c \in FetchCalls : \A q \in Quotes(c) :
        LET basis == IF c.kind = "call" THEN q.underlying_price ELSE q.strike
        IN /\ q.days_to_expiry >= 1
           /\ q.apr.t = "num" /\ basis.t = "num" /\ q.premium.t = "num"
           /\ q.apr.n * basis.v * q.days_to_expiry = q.premium.v * 365 * 100 * q.apr.d
           /\ q.apr.n > 0 /\ q.apr.d > 0
           /\ q.break_even_price = Num(basis.v - q.premium.v)

\* a price field that is present, not missing and strictly positive
Qualifies(x) == x.t = "num" /\ x.v > 0
NoPremium(row) == ~Qualifies(row.bid) /\ ~Qualifies(row.lastPrice) /\ ~Qualifies(row.ask)
\* p is the first of bid, lastPrice, ask that qualifies
FirstQualifying(row, p) ==
    \/ Qualifies(row.bid) /\ p = row.bid
    \/ ~Qualifies(row.bid) /\ Qualifies(row.lastPrice) /\ p = row.lastPrice
    \/ ~Qualifies(row.bid) /\ ~Qualifies(row.lastPrice) /\ Qualifies(row.ask) /\ p = row.ask

\* the rows the loop of a fetch went through: all of them, or, when a row made
\* it raise, those before that row
Processed(c) ==
    LET rows == RowsOf(c)
        stop == {i \in 1..Len(rows) : ~NoPremium(rows[i]) /\ rows[i].strike = None}
    IN IF c.exc = "" THEN 1..Len(rows)
       ELSE {i \in 1..Len(rows) : \A j \in stop : i < j}

\* the fetch went into its loop over the rows
Looped(c) == c.exc # "ValueError" /\ StatsOf(c).error = ""

Survivors(c) ==
    LET expiry_dt == strptime(c.expiry)
        days == calculate_days_to_expiry(expiry_dt, c.now)
        underlying == get_underlying_price(provider)
    IN IF c.kind = "call"
       THEN call_loop(provider.calls, 1, ZeroStats, <<>>, c.symbol, expiry_dt, underlying, days).results
       ELSE put_loop(provider.puts, 1, ZeroStats, <<>>, c.symbol, expiry_dt, underlying, days).results

\* a >= b on aprs
RatGe(a, b) == a.t = "num" /\ b.t = "num" /\ a.n * b.d >= b.n * a.d

\* C4: the list returned is in non-increasing order of apr, is a permutation
\* of the surviving rows' quotes, and keeps quotes of equal apr in the order
\* of their rows
C4_RankedStable ==
    \A c \in FetchCalls : (c.exc = "" /\ StatsOf(c).error = "") =>
        LET kept == Survivors(c)
        IN /\ \A i \in 1..(Len(c.ret) - 1) : RatGe(c.ret[i].apr, c.ret[i + 1].apr)
           /\ Len(c.ret) = Len(kept)
           /\ \E f \in Orderings(Len(kept)) :
                 /\ \A i \in 1..Len(kept) : c.ret[i] = kept[f[i]]
                 /\ \A i, j \in 1..Len(kept) :
                       (i < j /\ c.ret[i].apr = c.ret[j].apr) => f[i] < f[j]

\* the price the specification resolves: the fast quote when positive,
\* otherwise the daily close when positive, otherwise none
Resolved(P) ==
    IF Qualifies(P.fast) THEN P.fast
    ELSE IF Qualifies(P.hist) THEN P.hist
    ELSE None

\* C5: a fetch prices its quotes against the fast quote when that is present
\* and positive and against the daily close otherwise; it reports
\* missing_underlying_price, returning nothing, only if neither is positive
C5_PriceResolution ==
    \A c \in FetchCalls :
        /\ (StatsOf(c).error = "missing_underlying_price") <=> (Resolved(provider) = None)
        /\ \A q \in Quotes(c) : q.underlying_price = Resolved(provider)

\* C6: no operation raises to its caller, and a failure of the provider gives
\* the empty list
C6_NeverRaises ==
    /\ last.exc = ""
    /\ \A c \in FetchCalls :
          (c.exc = "" /\ (~provider.chain_ok \/ Resolved(provider) = None)) => c.ret = <<>>
    /\ (last.op = "list_option_expiries" /\ ~provider.options_ok) => last.ret = <<>>

\* C7: when days-to-expiry is 0 (the expiry is today or past) a fetch returns
\* the empty list whatever the rows; with the price and the chain obtained
\* the error is non_positive_days_to_expiry and every counter is 0
C7_ExpiredGivesNothing ==
    \A c \in FetchCalls :
        (strptime(c.expiry) # -1 /\ Max(strptime(c.expiry) - c.now, 0) = 0) =>
            /\ c.exc = "" /\ c.ret = <<>>
            /\ (provider.chain_ok /\ get_underlying_price(provider) # None
                /\ ~LeZero(get_underlying_price(provider))) =>
                  StatsOf(c) = [ZeroStats EXCEPT !.error = "non_positive_days_to_expiry"]

\* C7 witness: a fetch for an expiry already past, against a chain with rows
C7_Witness ==
    \E c \in FetchCalls :
        /\ strptime(c.expiry) # -1 /\ c.now > strptime(c.expiry)
        /\ Len(RowsOf(c)) = 2
        /\ StatsOf(c).error = "non_positive_days_to_expiry"

Min(a, b) == IF a <= b THEN a ELSE b

\* C8: each table main displays is the first min(N, length) quotes of the list
\* fetched for its expiry, formatted, in the order fetched
C8_TableIsRankedPrefix ==
    last.op = "main" =>
        \A i \in 1..Len(last.tables) :
            LET ret == last.fetched[i].ret
                table == last.tables[i]
            IN /\ Len(table) = Min(last.top_n, Len(ret))
               /\ \A k \in 1..Len(table) : table[k] = display_frame(ret)[k]

\* the same fetch made with nothing recorded in _FETCH_STATS
FromEmpty(c) ==
    IF c.kind = "call"
    THEN fetch_covered_call_quotes(<<>>, provider, c.symbol, c.expiry, c.now)
    ELSE fetch_cash_secured_put_quotes(<<>>, provider, c.symbol, c.expiry, c.now)

C9_Independent ==
    \A c \in FetchCalls : c.ret = FromEmpty(c).ret /\ c.exc = FromEmpty(c).exc

C9_Step ==
    (IsFetch(last) /\ IsFetch(last') /\ last'.op = last.op /\ last'.symbol = last.symbol
     /\ last'.expiry = last.expiry /\ last'.now = last.now /\ provider' = provider)
        => (last'.ret = last.ret /\ last'.exc = last.exc)

\* C9: what a fetch returns depends only on its arguments, the provider's
\* answers and the date: it is what the same fetch returns with nothing
\* recorded in _FETCH_STATS, and the same fetch made twice in a row returns
\* the same list
C9_Idempotent == [](C9_Independent) /\ [][C9_Step]_vars

\* C9 witness: a fetch that repeats the one before it and returns quotes, with
\* records of other keys in the map
C9_Witness ==
    /\ IsFetch(last) /\ last.repeat /\ Len(last.ret) = 2
    /\ Cardinality(DOMAIN FETCH_STATS) >= 3

\* the outcome of row i of a fetch, by the first check it fails: no premium,
\* then strike <= underlying (call) or strike >= underlying (put), then
\* strike <= 0 (put)
Outcome(c, i) ==
    LET row == RowsOf(c)[i]
        underlying == get_underlying_price(provider)
    IN IF NoPremium(row) THEN "missing_bid"
       ELSE IF c.kind = "call" /\ FLe(row.strike, underlying) THEN "not_otm"
       ELSE IF c.kind = "put" /\ FGe(row.strike, underlying) THEN "not_otm"
       ELSE IF c.kind = "put" /\ LeZero(row.strike) THEN "invalid_strike"
       ELSE "kept"

Count(c, outcome) == Cardinality({i \in 1..Len(RowsOf(c)) : Outcome(c, i) = outcome})

\* C10: every record of the map satisfies total_rows = kept + missing_bid +
\* not_otm + invalid_strike, with invalid_strike = 0 for a call; the record of
\* a fetch has kept = the length of the list returned and counts every row of
\* that fetch, and of no other, under the first check it fails
C10_StatsDescribeLastFetch ==
    /\ \A key \in DOMAIN FETCH_STATS :
          LET s == FETCH_STATS[key]
          IN /\ s.total_rows = s.kept + s.missing_bid + s.not_otm + s.invalid_strike
             /\ key[1] = "call" => s.invalid_strike = 0
    /\ \A c \in FetchCalls : c.exc = "" =>
          LET s == StatsOf(c)
          IN /\ s.kept = Len(c.ret)
             /\ s.error = "" =>
                   /\ s.total_rows = Len(RowsOf(c))
                   /\ \A o \in {"missing_bid", "not_otm", "invalid_strike"} : s[o] = Count(c, o)
                   /\ s.kept = Count(c, "kept")

====
